---- MODULE Spec2Model ----
(***************************************************************************)
(* Model of scripts/measure.py: the oavif benchmarking harness.            *)
(*                                                                         *)
(* Strings are sequences of one-character strings, so that the regular     *)
(* expression of parse_oavif_output, Path.suffix, str.lower, str.strip and *)
(* the lexicographic order of sorted() are computed character by           *)
(* character.  Floats are exact rationals [num, den] in lowest terms;      *)
(* roots that are not rational are kept symbolic.                          *)
(***************************************************************************)
EXTENDS Integers, Sequences, FiniteSets, TLC

VARIABLES
    oavif_exists,    \* Path(args.oavif_path).exists()
    images_dir,      \* what args.images_dir names: "missing", "file" or "dir"
    dir_entries,     \* the entries of the images directory
    keep,            \* args.keep
    pc,              \* position of main()
    exit_code,       \* the process's exit status, None while running
    image_files,     \* main's image_files
    idx,             \* number of completed iterations of the for loop
    results,         \* main's results
    out_dir,         \* temp_avif_output: stem -> size of <stem>.avif, or None
    clock,           \* time.perf_counter(), in milliseconds
    wall_start,      \* main's wall_start
    wall_elapsed,    \* main's wall_elapsed_s (a rational number of seconds)
    invocations,     \* history: every subprocess.run call made, in order, with
                     \* what stood at its output path when it returned
    csv,             \* the rows written to args.output_csv, None if not opened
    stats,           \* the aggregate statistics computed by main, None before
    stderr_output,   \* argument of a stand-alone parse_oavif_output call
    passes           \* its return value

vars == <<oavif_exists, images_dir, dir_entries, keep, pc, exit_code,
          image_files, idx, results, out_dir, clock, wall_start, wall_elapsed,
          invocations, csv, stats, stderr_output, passes>>

\* Python's Optional: None is the empty tuple, a present value x is <<x>>
None == <<>>
Some(x) == <<x>>
Get(o) == o[1]

\* ------------------------------------------------------------------ bounds

MaxFiles == 2        \* entries in the images directory
MaxChunks == 4       \* pieces a diagnostic text is concatenated from

\* ------------------------------------------------------------- characters

Digits == {"0", "1", "2", "3", "4", "5", "6", "7", "8", "9"}

DigitValue(c) ==
    CASE c = "0" -> 0 [] c = "1" -> 1 [] c = "2" -> 2 [] c = "3" -> 3
      [] c = "4" -> 4 [] c = "5" -> 5 [] c = "6" -> 6 [] c = "7" -> 7
      [] c = "8" -> 8 [] c = "9" -> 9

Whitespace == {" ", "\t", "\n"}

\* str.lower() on the letters the model uses
Lower(c) ==
    CASE c = "A" -> "a" [] c = "B" -> "b" [] c = "E" -> "e" [] c = "G" -> "g"
      [] c = "J" -> "j" [] c = "N" -> "n" [] c = "P" -> "p" [] c = "S" -> "s"
      [] OTHER -> c

LowerStr(s) == [i \in DOMAIN s |-> Lower(s[i])]

\* code point of a character (ASCII)
Ord(c) ==
    CASE c = "\t" -> 9 [] c = "\n" -> 10 [] c = " " -> 32 [] c = "." -> 46
      [] c \in Digits -> 48 + DigitValue(c)
      [] c = "A" -> 65 [] c = "B" -> 66 [] c = "E" -> 69 [] c = "G" -> 71
      [] c = "J" -> 74 [] c = "N" -> 78 [] c = "P" -> 80 [] c = "S" -> 83
      [] c = "a" -> 97 [] c = "b" -> 98 [] c = "c" -> 99 [] c = "d" -> 100
      [] c = "e" -> 101 [] c = "g" -> 103 [] c = "j" -> 106 [] c = "n" -> 110
      [] c = "p" -> 112 [] c = "s" -> 115 [] c = "t" -> 116 [] c = "x" -> 120

\* s < t for Python strings: code-point lexicographic order
RECURSIVE StrLess(_, _)
StrLess(s, t) ==
    IF t = <<>> THEN FALSE
    ELSE IF s = <<>> THEN TRUE
    ELSE IF Ord(Head(s)) # Ord(Head(t)) THEN Ord(Head(s)) < Ord(Head(t))
    ELSE StrLess(Tail(s), Tail(t))

\* --------------------------------------------------------------- rationals

Abs(n) == IF n < 0 THEN -n ELSE n

RECURSIVE GCD(_, _)
GCD(a, b) == IF b = 0 THEN a ELSE GCD(b, a % b)

\* the rational n/d (d > 0) in lowest terms
Frac(n, d) ==
    LET g == GCD(Abs(n), d)
    IN  [num |-> n \div g, den |-> d \div g]

Zero == Frac(0, 1)

\* integer square root, or -1 when n is not a perfect square
ISqrt(n) ==
    IF \E r \in 0..n : r * r = n THEN CHOOSE r \in 0..n : r * r = n ELSE -1

\* math.sqrt of a non-negative rational: exact when rational, else symbolic
Sqrt(q) ==
    IF ISqrt(q.num) >= 0 /\ ISqrt(q.den) >= 0
    THEN Frac(ISqrt(q.num), ISqrt(q.den))
    ELSE [sqrt |-> q]

RECURSIVE Pow(_, _)
Pow(b, e) == IF e = 0 THEN 1 ELSE b * Pow(b, e - 1)

\* integer n-th root, or -1 when m is not a perfect n-th power
IRoot(m, n) ==
    IF \E r \in 0..m : Pow(r, n) = m THEN CHOOSE r \in 0..m : Pow(r, n) = m
    ELSE -1

\* the n-th root of a non-negative rational: exact when rational, else symbolic
Root(q, n) ==
    IF IRoot(q.num, n) >= 0 /\ IRoot(q.den, n) >= 0
    THEN Frac(IRoot(q.num, n), IRoot(q.den, n))
    ELSE [root |-> n, of |-> q]

\* ---------------------------------------------------------- sequence helpers

RECURSIVE SumSeq(_)
SumSeq(s) == IF s = <<>> THEN 0 ELSE Head(s) + SumSeq(Tail(s))

RECURSIVE ProdSeq(_)
ProdSeq(s) == IF s = <<>> THEN 1 ELSE Head(s) * ProdSeq(Tail(s))

MaxOf(S) == CHOOSE x \in S : \A y \in S : y <= x
MinOf(S) == CHOOSE x \in S : \A y \in S : x <= y
Range(s) == {s[i] : i \in DOMAIN s}

\* ------------------------------------------------------------------ strings

pass_ == <<"p", "a", "s", "s">>
passes_ == <<"p", "a", "s", "s", "e", "s">>
Passes_ == <<"P", "a", "s", "s", "E", "S">>

\* int() of a string of decimal digits
RECURSIVE IntOf(_)
IntOf(ds) ==
    IF ds = <<>> THEN 0
    ELSE 10 * IntOf(SubSeq(ds, 1, Len(ds) - 1)) + DigitValue(ds[Len(ds)])

\* the literal part of the pattern, "passe", matched under re.IGNORECASE at k
LiteralAt(t, k) ==
    LET lit == <<"p", "a", "s", "s", "e">>
    IN  /\ k + Len(lit) - 1 <= Len(t)
        /\ \A m \in 1..Len(lit) : Lower(t[k + m - 1]) = lit[m]

\* The ends j of group 1 for which (\d+)\s+passes? matches t from position i:
\* t[i..j-1] are digits, t[j..k-1] is at least one whitespace character, the
\* literal "passe" stands at k, and the optional "s" may follow.
GroupEnds(t, i) ==
    { j \in (i + 1)..(Len(t) + 1) :
        /\ \A m \in i..(j - 1) : t[m] \in Digits
        /\ \E k \in (j + 1)..(Len(t) + 1) :
              /\ \A m \in j..(k - 1) : t[m] \in Whitespace
              /\ LiteralAt(t, k) }

\* re.search: the leftmost position with a match; \d+ is greedy
parse_oavif_output(t) ==
    LET starts == { i \in 1..Len(t) : GroupEnds(t, i) # {} }
    IN  IF starts = {} THEN None
        ELSE LET i == MinOf(starts)
                 j == MaxOf(GroupEnds(t, i))
             IN  Some(IntOf(SubSeq(t, i, j - 1)))

\* str.strip()
RECURSIVE LStrip(_)
LStrip(t) ==
    IF t # <<>> /\ Head(t) \in Whitespace THEN LStrip(Tail(t)) ELSE t

RECURSIVE RStrip(_)
RStrip(t) ==
    IF t # <<>> /\ t[Len(t)] \in Whitespace
    THEN RStrip(SubSeq(t, 1, Len(t) - 1)) ELSE t

Strip(t) == RStrip(LStrip(t))

\* ------------------------------------------------------------------- paths

\* position of the last "." of a file name, 0 if there is none
LastDot(name) ==
    LET dots == { i \in DOMAIN name : name[i] = "." }
    IN  IF dots = {} THEN 0 ELSE MaxOf(dots)

\* Path.suffix: from the last dot on, when that dot is neither the first nor
\* the last character of the name
Suffix(name) ==
    LET i == LastDot(name)
    IN  IF 1 < i /\ i < Len(name) THEN SubSeq(name, i, Len(name)) ELSE <<>>

\* Path.stem: the name without its suffix
Stem(name) == SubSeq(name, 1, Len(name) - Len(Suffix(name)))

image_extensions ==
    { <<".", "p", "n", "g">>, <<".", "j", "p", "g">>, <<".", "j", "p", "e", "g">> }

\* the filter of the generator expression in main
IsCandidate(entry) ==
    entry.kind = "file" /\ LowerStr(Suffix(entry.name)) \in image_extensions

\* sorted(): insertion of each element before the first greater one
RECURSIVE SortedInsert(_, _)
SortedInsert(s, x) ==
    IF s = <<>> THEN <<x>>
    ELSE IF StrLess(x, Head(s)) THEN <<x>> \o s
    ELSE <<Head(s)>> \o SortedInsert(Tail(s), x)

\* mutant: the directory listing is used in the order iterdir() gave it
sorted_missing(s) == s

RECURSIVE sorted(_)
sorted(s) ==
    IF s = <<>> THEN <<>> ELSE SortedInsert(sorted(Tail(s)), Head(s))

\* ------------------------------------------------------------ environment

\* what the images directory may hold: regular files and one sub-directory
\* whose name looks like an image
DirUniverse ==
    { [name |-> <<"a", ".", "j", "p", "g">>, kind |-> "file", size |-> 4],
      [name |-> <<"a", ".", "p", "n", "g">>, kind |-> "file", size |-> 4],
      [name |-> <<"B", ".", "P", "N", "G">>, kind |-> "file", size |-> 0],
      [name |-> <<"c", ".", "t", "x", "t">>, kind |-> "file", size |-> 4],
      [name |-> <<"d", ".", "p", "n", "g">>, kind |-> "dir", size |-> 4] }

Stems == { Stem(e.name) : e \in DirUniverse }

\* sizes of the file an invocation may write at the output path
OutSizes == {2, 6}

\* what the encoder may print on its diagnostic stream
RunTexts ==
    { <<>>,
      <<"2", " ">> \o passes_ \o <<"\n">>,
      <<"7", " ">> \o Passes_ }

\* elapsed milliseconds of one invocation
Durations == {1, 3}

\* One call of subprocess.run(cmd, capture_output=True, text=True, check=True):
\* the process could not be started (OSError), or it ran and exited.
LaunchFailure == [launched |-> FALSE]

\* exit status 0: any diagnostic text, with or without an output file
Successes ==
    [launched : {TRUE}, returncode : {0}, stderr : RunTexts,
     wrote : { Some(n) : n \in OutSizes } \cup {None}, elapsed : Durations]

\* a non-zero exit status, quickly, perhaps leaving a partial output file
Failures ==
    [launched : {TRUE}, returncode : {1}, stderr : RunTexts,
     wrote : {None, Some(2)}, elapsed : {1}]

Exits == Successes \cup Failures

\* Path.stat().st_size of an entry of the images directory
StatSize(name) == (CHOOSE e \in dir_entries : e.name = name).size

\* ---------------------------------------------------------- process_image

\* mutant: every successful invocation is reported as ok
StatusOf_always_ok(final_bytes) == "ok"

\* line 90
StatusOf(final_bytes) == IF final_bytes # None THEN "ok" ELSE "no-output"

\* mutant: the difference is not clamped at 0
SavingsBytes_unclamped(orig_bytes, final_bytes) == orig_bytes - final_bytes

\* line 79
SavingsBytes(orig_bytes, final_bytes) ==
    IF orig_bytes - final_bytes > 0 THEN orig_bytes - final_bytes ELSE 0

\* the dict process_image returns when subprocess.run returned (lines 64-93)
OkReturn(image_name, orig_bytes, run, avif_size) ==
    LET encoding_time_ms == Some(run.elapsed)
        passes_found == parse_oavif_output(run.stderr)
        final_bytes == avif_size
        absent == final_bytes = None \/ orig_bytes = 0
        savings_bytes ==
            IF absent THEN None
            ELSE Some(SavingsBytes(orig_bytes, Get(final_bytes)))
        savings_pct ==
            IF absent THEN None
            ELSE Some(Frac(Get(savings_bytes) * 100, orig_bytes))
    IN  [image |-> image_name,
         encoding_time_ms |-> encoding_time_ms,
         passes |-> passes_found,
         orig_bytes |-> orig_bytes,
         final_bytes |-> final_bytes,
         savings_bytes |-> savings_bytes,
         savings_pct |-> savings_pct,
         status |-> StatusOf(final_bytes),
         error |-> None,
         stderr |-> Strip(run.stderr)]

\* mutant: the elapsed time measured in the except branch is reported
ErrorReturn_timed(image_name, orig_bytes, run) ==
    [image |-> image_name,
     encoding_time_ms |-> Some(run.elapsed),
     passes |-> None,
     orig_bytes |-> orig_bytes,
     final_bytes |-> None,
     savings_bytes |-> None,
     savings_pct |-> None,
     status |-> "error",
     error |-> Some(<<"Error processing", image_name,
                      "returned non-zero exit status", run.returncode>>),
     stderr |-> Strip(run.stderr)]

\* the dict process_image returns on CalledProcessError (lines 94-107)
ErrorReturn(image_name, orig_bytes, run) ==
    [image |-> image_name,
     encoding_time_ms |-> None,
     passes |-> None,
     orig_bytes |-> orig_bytes,
     final_bytes |-> None,
     savings_bytes |-> None,
     savings_pct |-> None,
     status |-> "error",
     error |-> Some(<<"Error processing", image_name,
                      "returned non-zero exit status", run.returncode>>),
     stderr |-> Strip(run.stderr)]

\* the output directory after the encoder ran for the image with this stem
AfterRun(dir, stem, run) ==
    IF run.wrote = None THEN dir ELSE [dir EXCEPT ![stem] = run.wrote]

\* lines 41-107: the dict returned once subprocess.run has returned or has
\* raised CalledProcessError; avif_size is the size of the file found at the
\* output path, None if there is none
process_image(image_name, orig_bytes, run, avif_size) ==
    IF run.returncode = 0
    THEN OkReturn(image_name, orig_bytes, run, avif_size)
    ELSE ErrorReturn(image_name, orig_bytes, run)

\* ------------------------------------------------------------- statistics

StatisticsError == [raised |-> "StatisticsError"]

\* statistics.median of a list of integers
median(xs) ==
    LET n == Len(xs)
        \* the k-th smallest element
        kth(k) == CHOOSE v \in Range(xs) :
                    /\ Cardinality({ i \in DOMAIN xs : xs[i] < v }) < k
                    /\ Cardinality({ i \in DOMAIN xs : xs[i] <= v }) >= k
    IN  IF n = 0 THEN StatisticsError
        ELSE IF n % 2 = 1 THEN Frac(kth((n + 1) \div 2), 1)
        ELSE Frac(kth(n \div 2) + kth(n \div 2 + 1), 2)

\* statistics.stdev (sample standard deviation) of a list of integers
stdev(xs) ==
    LET n == Len(xs)
        sq == [i \in DOMAIN xs |-> xs[i] * xs[i]]
    IN  IF n < 2 THEN StatisticsError
        ELSE Sqrt(Frac(n * SumSeq(sq) - SumSeq(xs) * SumSeq(xs), n * (n - 1)))

\* statistics.geometric_mean of a list of non-negative rationals; with a zero
\* in the data the Python the script requires (>= 3.14) returns 0.0
geometric_mean(rs) ==
    IF rs = <<>> THEN StatisticsError
    ELSE IF \E i \in DOMAIN rs : rs[i].num = 0 THEN Zero
    ELSE Root(Frac(ProdSeq([i \in DOMAIN rs |-> rs[i].num]),
                   ProdSeq([i \in DOMAIN rs |-> rs[i].den])), Len(rs))

\* lines 213-217
safe_geomean(ratios) ==
    IF ratios # <<>>
    THEN IF geometric_mean(ratios) = StatisticsError THEN None
         ELSE Some(geometric_mean(ratios))
    ELSE None

\* x / wall_elapsed_s if wall_elapsed_s > 0 else 0.0
PerSecond(x, wall) ==
    IF wall.num > 0 THEN Frac(x * wall.den, wall.num) ELSE Zero

IsOk(m) == m.status = "ok"
IsError(m) == m.status = "error"
IsNoOutput(m) == m.status = "no-output"
HasTime(m) == m.encoding_time_ms # None
HasPasses(m) == m.passes # None
HasFinal(m) == m.final_bytes # None
HasRatio(m) == m.final_bytes # None /\ m.orig_bytes > 0

\* mutant: the totals run over every record
OkRecords_unfiltered(res) == res

\* line 209
OkRecords(res) == SelectSeq(res, IsOk)

\* mutant: the guard admits a single sample
StdevOrZero_one_sample(xs) == IF Len(xs) > 0 THEN stdev(xs) ELSE Zero

\* lines 242 and 247
StdevOrZero(xs) == IF Len(xs) > 1 THEN stdev(xs) ELSE Zero

\* lines 209-247: the aggregate statistics of a list of records
Aggregate(res, wall) ==
    LET ok == OkRecords(res)
        errors == SelectSeq(res, IsError)
        no_out == SelectSeq(res, IsNoOutput)
        timed == SelectSeq(ok, HasTime)
        counted == SelectSeq(ok, HasPasses)
        sized == SelectSeq(ok, HasFinal)
        rated == SelectSeq(ok, HasRatio)
        encoding_times ==
            [i \in DOMAIN timed |-> Get(timed[i].encoding_time_ms)]
        passes_list == [i \in DOMAIN counted |-> Get(counted[i].passes)]
        orig_total == SumSeq([i \in DOMAIN ok |-> ok[i].orig_bytes])
        final_total == SumSeq([i \in DOMAIN sized |-> Get(sized[i].final_bytes)])
        savings_total ==
            IF ok # <<>>
            THEN IF orig_total - final_total > 0 THEN orig_total - final_total
                 ELSE 0
            ELSE 0
        ratios == [i \in DOMAIN rated |->
                     Frac(Get(rated[i].final_bytes), rated[i].orig_bytes)]
        geomean_ratio == safe_geomean(ratios)
    IN  [ok_count |-> Len(ok),
         error_count |-> Len(errors),
         no_output_count |-> Len(no_out),
         orig_total |-> orig_total,
         final_total |-> final_total,
         savings_total |-> savings_total,
         pct_saved_overall |->
            IF orig_total > 0 THEN Frac(savings_total * 100, orig_total)
            ELSE Zero,
         geomean_savings_pct |->
            IF geomean_ratio = None THEN None
            ELSE IF "num" \in DOMAIN Get(geomean_ratio)
            THEN Some(Frac((Get(geomean_ratio).den - Get(geomean_ratio).num)
                           * 100, Get(geomean_ratio).den))
            ELSE Some([one_minus |-> Get(geomean_ratio), times |-> 100]),
         img_throughput |-> PerSecond(Len(ok), wall),
         byte_in_throughput |-> PerSecond(orig_total, wall),
         byte_out_throughput |-> PerSecond(final_total, wall),
         avg_encoding_time |->
            IF encoding_times # <<>>
            THEN Frac(SumSeq(encoding_times), Len(encoding_times)) ELSE Zero,
         median_encoding_time |->
            IF encoding_times # <<>> THEN median(encoding_times) ELSE Zero,
         encoding_time_stddev |->
            StdevOrZero(encoding_times),
         avg_passes |->
            IF passes_list # <<>>
            THEN Frac(SumSeq(passes_list), Len(passes_list)) ELSE Zero,
         max_passes |->
            IF passes_list # <<>> THEN MaxOf(Range(passes_list)) ELSE 0,
         min_passes |->
            IF passes_list # <<>> THEN MinOf(Range(passes_list)) ELSE 0,
         passes_stddev |-> StdevOrZero(passes_list)]

\* a statistics call raised inside Aggregate
Raised(st) ==
    \E f \in {"median_encoding_time", "encoding_time_stddev", "passes_stddev"} :
        st[f] = StatisticsError

\* --------------------------------------------------------------- report

\* f"{x:.2f}": x rounded to hundredths (ties to even), as a count of hundredths
Fmt2(q) ==
    LET n == q.num * 100
        lo == n \div q.den
        twice == 2 * (n - lo * q.den)
    IN  <<".2f", IF twice > q.den \/ (twice = q.den /\ lo % 2 = 1)
                 THEN lo + 1 ELSE lo>>

\* a cell of the report is a tuple: the empty string is the empty tuple
Blank == <<>>

csv_header ==
    <<<<"Image">>, <<"Original Bytes">>, <<"Final Bytes">>,
      <<"Savings Bytes">>, <<"Savings %">>, <<"Encoding Time (ms)">>,
      <<"Passes">>, <<"Status">>, <<"Error">>>>

\* lines 194-206: the row written for one record
csv_row(m) ==
    <<m.image,
      <<m.orig_bytes>>,
      IF m.final_bytes # None THEN <<Get(m.final_bytes)>> ELSE Blank,
      IF m.savings_bytes # None THEN <<Get(m.savings_bytes)>> ELSE Blank,
      IF m.savings_pct # None THEN Fmt2(Get(m.savings_pct)) ELSE Blank,
      IF m.encoding_time_ms # None
      THEN Fmt2(Frac(Get(m.encoding_time_ms), 1)) ELSE Blank,
      IF m.passes # None THEN <<Get(m.passes)>> ELSE Blank,
      <<m.status>>,
      IF m.error # None THEN Get(m.error) ELSE Blank>>

\* ---------------------------------------------------------------- main

\* The process starts with its arguments parsed; temp_avif_output holds no
\* file of an earlier run.
Init ==
    /\ oavif_exists \in BOOLEAN
    /\ images_dir \in {"missing", "file", "dir"}
    /\ dir_entries \in { d \in SUBSET DirUniverse : Cardinality(d) <= MaxFiles }
    /\ images_dir # "dir" => dir_entries = {}
    /\ keep \in BOOLEAN
    /\ pc = "check_oavif"
    /\ exit_code = None
    /\ image_files = <<>>
    /\ idx = 0
    /\ results = <<>>
    /\ out_dir = [s \in Stems |-> None]
    /\ clock = 0
    /\ wall_start = None
    /\ wall_elapsed = None
    /\ invocations = <<>>
    /\ csv = None
    /\ stats = None
    /\ stderr_output = <<>>
    /\ passes = None

\* sys.exit(code), or the interpreter ending on an uncaught exception
Exit(how, code) ==
    /\ pc' = how
    /\ exit_code' = Some(code)

\* mutant: the encoder path is not checked
CheckOavif_unchecked ==
    /\ pc = "check_oavif"
    /\ pc' = "check_images_dir"
    /\ UNCHANGED <<oavif_exists, images_dir, dir_entries, keep, exit_code,
                   image_files, idx, results, out_dir, clock, wall_start,
                   wall_elapsed, invocations, csv, stats, stderr_output, passes>>

\* lines 125-127
CheckOavif ==
    /\ pc = "check_oavif"
    /\ IF ~oavif_exists
       THEN Exit("exited", 1)
       ELSE pc' = "check_images_dir" /\ UNCHANGED exit_code
    /\ UNCHANGED <<oavif_exists, images_dir, dir_entries, keep, image_files,
                   idx, results, out_dir, clock, wall_start, wall_elapsed,
                   invocations, csv, stats, stderr_output, passes>>

\* lines 129-132
CheckImagesDir ==
    /\ pc = "check_images_dir"
    /\ IF images_dir = "missing"
       THEN Exit("exited", 1)
       ELSE pc' = "list_images" /\ UNCHANGED exit_code
    /\ UNCHANGED <<oavif_exists, images_dir, dir_entries, keep, image_files,
                   idx, results, out_dir, clock, wall_start, wall_elapsed,
                   invocations, csv, stats, stderr_output, passes>>

\* all orders iterdir() may list a set of names in
Listings(names) ==
    { l \in [1..Cardinality(names) -> names] : Range(l) = names }

\* lines 134-149; iterdir() of a path that is no directory raises
\* NotADirectoryError, which nothing catches
ListImages ==
    /\ pc = "list_images"
    /\ IF images_dir = "file"
       THEN /\ Exit("crashed", 1)
            /\ UNCHANGED <<image_files, wall_start>>
       ELSE \E listing \in Listings({ e.name : e \in
                                        { c \in dir_entries : IsCandidate(c) } }) :
              /\ image_files' = sorted(listing)
              /\ IF image_files' = <<>>
                 THEN Exit("exited", 1) /\ UNCHANGED wall_start
                 ELSE /\ pc' = "loop"
                      /\ wall_start' = Some(clock)
                      /\ UNCHANGED exit_code
    /\ UNCHANGED <<oavif_exists, images_dir, dir_entries, keep, idx, results,
                   out_dir, clock, wall_elapsed, invocations, csv, stats,
                   stderr_output, passes>>

\* lines 151-158: one iteration of the for loop.  subprocess.run either
\* raises OSError because the process cannot be started, which neither
\* process_image nor main catches, or runs the encoder to its exit.
ProcessImage ==
    /\ pc = "loop"
    /\ idx < Len(image_files)
    /\ LET image_name == image_files[idx + 1]
           stem == Stem(image_name)
           orig_bytes == StatSize(image_name)
       IN  \/ /\ invocations' =
                   Append(invocations, [image |-> image_name] @@ LaunchFailure)
               /\ Exit("crashed", 1)
               /\ UNCHANGED <<idx, results, out_dir, clock>>
           \/ \E run \in Exits :
               /\ out_dir' = AfterRun(out_dir, stem, run)
               /\ invocations' =
                   Append(invocations,
                          [image |-> image_name, found |-> out_dir'[stem]] @@ run)
               /\ clock' = clock + run.elapsed
               /\ results' = Append(results,
                     process_image(image_name, orig_bytes, run, out_dir'[stem]))
               /\ idx' = idx + 1
               /\ UNCHANGED <<pc, exit_code>>
    /\ UNCHANGED <<oavif_exists, images_dir, dir_entries, keep, image_files,
                   wall_start, wall_elapsed, csv, stats, stderr_output, passes>>

\* line 160: the for loop is exhausted
LoopEnd ==
    /\ pc = "loop"
    /\ idx = Len(image_files)
    /\ wall_elapsed' = Some(Frac(clock - Get(wall_start), 1000))
    /\ pc' = "cleanup"
    /\ UNCHANGED <<oavif_exists, images_dir, dir_entries, keep, exit_code,
                   image_files, idx, results, out_dir, clock, wall_start,
                   invocations, csv, stats, stderr_output, passes>>

\* lines 163-175
Cleanup ==
    /\ pc = "cleanup"
    /\ out_dir' =
          IF ~keep
          THEN [s \in Stems |->
                  IF \E i \in DOMAIN results : Stem(results[i].image) = s
                  THEN None ELSE out_dir[s]]
          ELSE out_dir
    /\ pc' = "write_csv"
    /\ UNCHANGED <<oavif_exists, images_dir, dir_entries, keep, exit_code,
                   image_files, idx, results, clock, wall_start, wall_elapsed,
                   invocations, csv, stats, stderr_output, passes>>

\* lines 178-206
WriteCsv ==
    /\ pc = "write_csv"
    /\ csv' = Some(<<csv_header>>
                    \o [i \in DOMAIN results |-> csv_row(results[i])])
    /\ pc' = "aggregate"
    /\ UNCHANGED <<oavif_exists, images_dir, dir_entries, keep, exit_code,
                   image_files, idx, results, out_dir, clock, wall_start,
                   wall_elapsed, invocations, stats, stderr_output, passes>>

\* lines 209-271; main returns and the interpreter exits with status 0,
\* unless a statistics call raised
Summarize ==
    /\ pc = "aggregate"
    /\ LET st == Aggregate(results, Get(wall_elapsed))
       IN  IF Raised(st)
           THEN Exit("crashed", 1) /\ UNCHANGED stats
           ELSE stats' = Some(st) /\ Exit("done", 0)
    /\ UNCHANGED <<oavif_exists, images_dir, dir_entries, keep, image_files,
                   idx, results, out_dir, clock, wall_start, wall_elapsed,
                   invocations, csv, stderr_output, passes>>

Next ==
    \/ CheckOavif
    \/ CheckImagesDir
    \/ ListImages
    \/ ProcessImage
    \/ LoopEnd
    \/ Cleanup
    \/ WriteCsv
    \/ Summarize

Spec == Init /\ [][Next]_vars

\* ------------------------------------------- parse_oavif_output on its own

\* the pieces diagnostic texts are made of
Chunks ==
    { <<"1">>, <<"2">>, <<" ">>, <<"\n">>, <<"x">>, pass_, passes_, Passes_ }

RECURSIVE TextsUpTo(_)
TextsUpTo(k) ==
    IF k = 0 THEN { <<>> }
    ELSE TextsUpTo(k - 1)
         \cup { t \o c : t \in TextsUpTo(k - 1), c \in Chunks }

Texts == TextsUpTo(MaxChunks)

ParseInit ==
    /\ stderr_output \in Texts
    /\ passes = None
    /\ pc = "parse_call"
    /\ oavif_exists = TRUE
    /\ images_dir = "dir"
    /\ dir_entries = {}
    /\ keep = FALSE
    /\ exit_code = None
    /\ image_files = <<>>
    /\ idx = 0
    /\ results = <<>>
    /\ out_dir = [s \in Stems |-> None]
    /\ clock = 0
    /\ wall_start = None
    /\ wall_elapsed = None
    /\ invocations = <<>>
    /\ csv = None
    /\ stats = None

\* lines 22-28: one call of parse_oavif_output(stderr_output)
ParseCall ==
    /\ pc = "parse_call"
    /\ passes' = parse_oavif_output(stderr_output)
    /\ pc' = "parse_return"
    /\ UNCHANGED <<oavif_exists, images_dir, dir_entries, keep, exit_code,
                   image_files, idx, results, out_dir, clock, wall_start,
                   wall_elapsed, invocations, csv, stats, stderr_output>>

ParseNext == ParseCall

ParseSpec == ParseInit /\ [][ParseNext]_vars

\* ================================================================ claims

\* the runs that returned: results[i] was built from invocations[i]
Returned == DOMAIN results

LoopDone == pc \in {"cleanup", "write_csv", "aggregate", "done"}

\* C1: every record returned by process_image has exactly one of the three
\* statuses: error iff the invocation failed, no-output iff it succeeded and
\* no file stood at the output path, ok otherwise; and ok iff final_bytes is
\* present.
C1_StatusPartition ==
    \A i \in Returned :
        LET m == results[i]
            inv == invocations[i]
        IN  /\ m.status \in {"error", "no-output", "ok"}
            /\ m.status = "error" <=> inv.returncode # 0
            /\ m.status = "no-output" <=> inv.returncode = 0 /\ inv.found = None
            /\ m.status = "ok" <=> inv.returncode = 0 /\ inv.found # None
            /\ m.status = "ok" <=> m.final_bytes # None

\* one run with an ok record, and an error record whose failed invocation
\* left a file at the output path
C1_Witness ==
    /\ \E i \in Returned : results[i].status = "ok"
    /\ \E i \in Returned :
          results[i].status = "error" /\ invocations[i].found # None

\* C2: for a record with status ok and original_bytes > 0,
\* savings_bytes = max(original_bytes - final_bytes, 0) and
\* savings_pct = 100 * savings_bytes / original_bytes; both are absent
\* whenever final_bytes is absent or original_bytes is 0.
C2_Savings ==
    \A i \in Returned :
        LET m == results[i]
        IN  /\ m.status = "ok" /\ m.orig_bytes > 0 =>
                /\ m.savings_bytes # None
                /\ m.savings_pct # None
                /\ Get(m.savings_bytes) >= 0
                /\ Get(m.savings_bytes) >= m.orig_bytes - Get(m.final_bytes)
                /\ Get(m.savings_bytes) \in {0, m.orig_bytes - Get(m.final_bytes)}
                /\ Get(m.savings_pct).num * m.orig_bytes
                     = 100 * Get(m.savings_bytes) * Get(m.savings_pct).den
            /\ m.final_bytes = None \/ m.orig_bytes = 0 =>
                m.savings_bytes = None /\ m.savings_pct = None

\* an output larger than its original (savings clamped to 0) and an ok
\* record of an empty original
C2_Witness ==
    /\ \E i \in Returned :
          /\ results[i].status = "ok" /\ results[i].orig_bytes > 0
          /\ Get(results[i].final_bytes) > results[i].orig_bytes
    /\ \E i \in Returned :
          results[i].status = "ok" /\ results[i].orig_bytes = 0

\* C3: a launch failure of the encoder for one image is captured: that image
\* gets a record with status error and the run goes on with the next image
\* instead of aborting.
C3_LaunchFailureCaptured ==
    \A i \in DOMAIN invocations :
        ~invocations[i].launched =>
            /\ i \in Returned
            /\ results[i].status = "error"
            /\ pc # "crashed"

\* C7: the record of an image depends only on that image's size and its own
\* invocation: a run that exits 0 without writing output is recorded as
\* no-output, and a final size is the size that run wrote.
C7_NoSharedState ==
    \A i \in Returned :
        LET m == results[i]
            inv == invocations[i]
        IN  inv.returncode = 0 =>
                /\ inv.wrote = None => m.status = "no-output"
                /\ m.final_bytes = inv.wrote

\* C10, what the claim calls a token: a whole integer at i..j-1, whitespace,
\* then the word "pass" or "passes" in any letter case
IsWordChar(c) ==
    \/ c \in Digits
    \/ Ord(c) \in 65..90
    \/ Ord(c) \in 97..122

WordAt(t, k, w) ==
    /\ k + Len(w) - 1 <= Len(t)
    /\ \A m \in 1..Len(w) : Lower(t[k + m - 1]) = w[m]
    /\ k + Len(w) <= Len(t) => ~IsWordChar(t[k + Len(w)])

TokenEnds(t, i) ==
    { j \in (i + 1)..(Len(t) + 1) :
        /\ \A m \in i..(j - 1) : t[m] \in Digits
        /\ i > 1 => t[i - 1] \notin Digits
        /\ j <= Len(t) /\ t[j] \notin Digits
        /\ \E k \in (j + 1)..(Len(t) + 1) :
              /\ \A m \in j..(k - 1) : t[m] \in Whitespace
              /\ WordAt(t, k, pass_) \/ WordAt(t, k, passes_) }

TokenStarts(t) == { i \in 1..Len(t) : TokenEnds(t, i) # {} }

\* C10: for a text with an integer N followed by the word "pass" or "passes"
\* in any letter case the parser returns the N of the first such token, and
\* for a text without one it returns absent.
C10_ParserExtractsN ==
    pc = "parse_return" =>
        LET t == stderr_output
        IN  IF TokenStarts(t) = {} THEN passes = None
            ELSE LET i == MinOf(TokenStarts(t))
                     j == MinOf(TokenEnds(t, i))
                 IN  passes = Some(IntOf(SubSeq(t, i, j - 1)))

\* C4: a non-zero exit gives a record with status error, with final_bytes,
\* savings_bytes, savings_pct, encoding_time_ms and passes absent and the error
\* message populated; the run goes on to the next image, and the report row of
\* the image has blank final-bytes, savings, time and pass fields and a
\* non-blank error field.
C4_NonZeroExit ==
    /\ pc \in {"aggregate", "done"} =>
          csv # None /\ Len(Get(csv)) = Len(results) + 1
    /\ \A i \in Returned :
          invocations[i].returncode # 0 =>
            LET m == results[i]
            IN  /\ m.status = "error"
                /\ m.final_bytes = None
                /\ m.savings_bytes = None
                /\ m.savings_pct = None
                /\ m.encoding_time_ms = None
                /\ m.passes = None
                /\ m.error # None /\ Get(m.error) # <<>>
                /\ pc # "exited"
                /\ pc = "crashed" =>
                      \E k \in (i + 1)..Len(invocations) : ~invocations[k].launched
                /\ LoopDone => Len(results) = Len(image_files)
                /\ csv # None =>
                      LET row == Get(csv)[i + 1]
                      IN  /\ row[1] = m.image
                          /\ row[3] = Blank /\ row[4] = Blank /\ row[5] = Blank
                          /\ row[6] = Blank /\ row[7] = Blank
                          /\ row[8] = <<"error">>
                          /\ row[9] # Blank

\* a finished run whose first invocation exited non-zero and whose second
\* image was processed all the same
C4_Witness ==
    /\ pc = "done"
    /\ Len(results) = 2
    /\ invocations[1].returncode # 0
    /\ results[2].status = "ok"
    /\ csv # None

\* C5, the records added: what process_image returns for one more image when
\* its invocation fails or writes nothing
AddedRecords ==
    { process_image(<<"x", ".", "p", "n", "g">>, 4, run, None) :
        run \in { e \in Exits : e.wrote = None /\ e.elapsed = 1 } }

InsertAt(s, k, r) == SubSeq(s, 1, k) \o <<r>> \o SubSeq(s, k + 1, Len(s))

Totals(st) ==
    <<st.orig_total, st.final_total, st.savings_total, st.pct_saved_overall>>

\* C5: the byte totals and pct_saved_overall are computed over the ok records
\* only: adding an error or no-output record at any position of the list
\* leaves them unchanged.
C5_TotalsIgnoreNonOk ==
    pc = "done" =>
        \A r \in AddedRecords : \A k \in 0..Len(results) :
            /\ r.status \in {"error", "no-output"}
            /\ Totals(Aggregate(InsertAt(results, k, r), Get(wall_elapsed)))
                 = Totals(Get(stats))

\* the statistics of a run with an ok record that saved bytes and a record
\* that is not ok
C5_Witness ==
    /\ pc = "done"
    /\ Get(stats).savings_total > 0
    /\ \E i \in Returned : results[i].status # "ok" /\ results[i].orig_bytes > 0

\* C6, counted from the records themselves
OkIndices == { i \in Returned : results[i].status = "ok" }
TimeSamples == { i \in OkIndices : results[i].encoding_time_ms # None }
PassSamples == { i \in OkIndices : results[i].passes # None }

\* C6: aggregation never fails; with no ok record every total, throughput and
\* dispersion statistic is zero and geomean_savings_pct is absent; the standard
\* deviation of times and of passes is zero with fewer than two samples.
C6_AggregationTotal ==
    /\ pc = "crashed" =>
          \/ images_dir = "file"
          \/ invocations # <<>> /\ ~invocations[Len(invocations)].launched
    /\ pc = "done" =>
          LET st == Get(stats)
          IN  /\ OkIndices = {} =>
                    /\ st.orig_total = 0
                    /\ st.final_total = 0
                    /\ st.savings_total = 0
                    /\ st.pct_saved_overall = Zero
                    /\ st.img_throughput = Zero
                    /\ st.byte_in_throughput = Zero
                    /\ st.byte_out_throughput = Zero
                    /\ st.avg_encoding_time = Zero
                    /\ st.median_encoding_time = Zero
                    /\ st.encoding_time_stddev = Zero
                    /\ st.avg_passes = Zero
                    /\ st.max_passes = 0
                    /\ st.min_passes = 0
                    /\ st.passes_stddev = Zero
                    /\ st.geomean_savings_pct = None
              /\ Cardinality(TimeSamples) < 2 => st.encoding_time_stddev = Zero
              /\ Cardinality(PassSamples) < 2 => st.passes_stddev = Zero

\* a finished run none of whose records is ok
C6_Witness ==
    /\ pc = "done"
    /\ Len(results) = 2
    /\ OkIndices = {}
    /\ results[1].status # results[2].status

\* C8 and C9, the candidates as the claims describe them: regular files whose
\* name ends in .png, .jpg or .jpeg in any letter case
EndsWithCI(name, ext) ==
    /\ Len(name) > Len(ext)
    /\ LowerStr(SubSeq(name, Len(name) - Len(ext) + 1, Len(name))) = ext

CandidateNames ==
    { e.name : e \in { c \in dir_entries :
        /\ c.kind = "file"
        /\ \E ext \in image_extensions : EndsWithCI(c.name, ext) } }

Listed == pc \notin {"check_oavif", "check_images_dir", "list_images",
                     "exited", "parse_call", "parse_return"}
          /\ images_dir = "dir"

\* C8: the images are processed one after the other in lexicographically
\* sorted order, with one encoder invocation per candidate image, and when the
\* loop has ended the result list holds one record per candidate image in that
\* order.
C8_SequentialSorted ==
    Listed =>
        /\ Range(image_files) = CandidateNames
        /\ Len(image_files) = Cardinality(CandidateNames)
        /\ \A i, j \in DOMAIN image_files :
              i < j => StrLess(image_files[i], image_files[j])
        /\ Len(invocations) <= Len(image_files)
        /\ \A i \in DOMAIN invocations : invocations[i].image = image_files[i]
        /\ Len(results) <= Len(invocations)
        /\ Len(invocations) <= Len(results) + 1
        /\ \A i \in Returned : results[i].image = image_files[i]
        /\ idx = Len(results)
        /\ LoopDone =>
              /\ Len(invocations) = Len(image_files)
              /\ Len(results) = Len(image_files)

\* a finished run over two images, the upper-case name first
C8_Witness ==
    /\ pc = "done"
    /\ image_files = << <<"B", ".", "P", "N", "G">>, <<"a", ".", "j", "p", "g">> >>
    /\ Len(results) = 2

ConfigError ==
    \/ ~oavif_exists
    \/ images_dir = "missing"
    \/ CandidateNames = {}

\* C9: with the encoder executable missing, the input directory missing or no
\* candidate image found, the process terminates with a non-zero exit, no
\* encoder invocation has been made and no report has been written.
C9_ConfigErrorsFatal ==
    ConfigError /\ pc \notin {"parse_call", "parse_return"} =>
        /\ invocations = <<>>
        /\ results = <<>>
        /\ csv = None
        /\ pc \in {"check_oavif", "check_images_dir", "list_images",
                    "exited", "crashed"}
        /\ pc \in {"exited", "crashed"} <=> exit_code # None
        /\ exit_code # None => Get(exit_code) # 0

\* the run over a directory that holds entries but no candidate image has
\* exited
C9_Witness ==
    /\ pc = "exited"
    /\ oavif_exists
    /\ images_dir = "dir"
    /\ Cardinality(dir_entries) = 2
    /\ CandidateNames = {}

====
